---- MODULE Spec2Model ----
(***************************************************************************)
(* Model of extract_from_folder.py: the selection of the Japanese audio    *)
(* track from ffprobe's stream listing (get_japanese_audio_track) and the  *)
(* batch run over a folder (main, extract_audio) on a ThreadPoolExecutor.  *)
(*                                                                         *)
(* Strings the code inspects character by character (language tags, file   *)
(* suffixes) are tuples of one-character strings, so that str.lower() and  *)
(* the character classes of AUDIO_STREAM_RE are computed, not assumed.     *)
(***************************************************************************)
EXTENDS Naturals, Sequences, FiniteSets, TLC

(* ---------------------------------------------------------------- bounds *)

\* longest ffprobe stream listing the selector is checked on
MaxLines == 3
\* most entries the scanned folder holds
MaxEntries == 2
\* largest pool size (ThreadPoolExecutor() sizes itself from the machine)
MaxWorkers == 2

(* ------------------------------------------------------------ characters *)

LOWERCASE == {"j", "p", "n", "e", "g", "m", "k", "v", "t", "x"}
UPPERCASE == {"J", "P", "N", "M", "K", "V"}

\* str.lower() on one character
LowerChar(c) ==
  CASE c = "J" -> "j"
    [] c = "P" -> "p"
    [] c = "N" -> "n"
    [] c = "M" -> "m"
    [] c = "K" -> "k"
    [] c = "V" -> "v"
    [] OTHER -> c

\* str.lower()
Lower(s) == [k \in 1..Len(s) |-> LowerChar(s[k])]

\* the character class [a-zA-Z]
IsAlpha(c) == c \in LOWERCASE \cup UPPERCASE

\* the character class \d, on a stream or container number: one digit
IsDigit(n) == n \in 0..9

(* ------------------------------------------------- ffprobe stream lines  *)
\* A line "Stream #<container>:<stream>(<lang>): <kind>: ..." of ffprobe's
\* stderr; lang = << >> is a line without the "(<lang>)" part.

jpn == <<"j", "p", "n">>
JPN == <<"J", "P", "N">>
eng == <<"e", "n", "g">>
NoLang == << >>

Langs == {NoLang, jpn, JPN, eng}
StreamNumbers == {1, 2, 10}

StreamLine(c, s, l, k) == [container |-> c, stream |-> s, lang |-> l, kind |-> k]

AudioLines == {StreamLine(0, s, l, "Audio") : s \in StreamNumbers, l \in Langs}
VideoLine == StreamLine(0, 0, NoLang, "Video")
SubtitleLine == StreamLine(0, 3, eng, "Subtitle")
Lines == AudioLines \cup {VideoLine, SubtitleLine}

RECURSIVE SeqsUpTo(_, _)
SeqsUpTo(S, n) ==
  IF n = 0 THEN {<< >>}
  ELSE LET shorter == SeqsUpTo(S, n - 1)
       IN shorter \cup {Append(t, x) : t \in {u \in shorter : Len(u) = n - 1}, x \in S}

ProbeTexts == SeqsUpTo(Lines, MaxLines)

(* --------------------------------------------------------- the selector  *)

\* Whether AUDIO_STREAM_RE matches at this line:
\* "Stream #" \d ":" \d "(" [a-zA-Z]+ "): Audio"
ReMatches(line) ==
  /\ IsDigit(line.container)
  /\ IsDigit(line.stream)
  /\ line.lang # NoLang
  /\ \A k \in 1..Len(line.lang) : IsAlpha(line.lang[k])
  /\ line.kind = "Audio"

\* The capture groups of one match: (index, language)
Groups(line) == <<(<<line.container, line.stream>>), line.lang>>

\* AUDIO_STREAM_RE.findall(text): the capture groups of every match, in order
FindAll(text) ==
  LET F[k \in 0..Len(text)] ==
        IF k = 0 THEN << >>
        ELSE IF ReMatches(text[k]) THEN Append(F[k - 1], Groups(text[k]))
        ELSE F[k - 1]
  IN F[Len(text)]

Returned(index) == [raised |-> FALSE, index |-> index]
JapaneseNotFoundException == [raised |-> TRUE, index |-> << >>]

\* language.lower() == "jpn"
IsJapanese(language) == Lower(language) = jpn

\* the loop "for index, language in streams": the first Japanese one, from k on
RECURSIVE FirstJapanese(_, _)
FirstJapanese(streams, k) ==
  IF k > Len(streams) THEN JapaneseNotFoundException
  ELSE IF IsJapanese(streams[k][2]) THEN Returned(streams[k][1])
  ELSE FirstJapanese(streams, k + 1)

\* a loop that keeps the last Japanese stream instead of returning at the first
RECURSIVE LastJapanese(_, _)
LastJapanese(streams, k) ==
  IF k > Len(streams) THEN JapaneseNotFoundException
  ELSE LET rest == LastJapanese(streams, k + 1)
       IN IF ~rest.raised THEN rest
          ELSE IF IsJapanese(streams[k][2]) THEN Returned(streams[k][1])
          ELSE rest

AltSelectTrack(streams) ==
  IF Len(streams) = 0 THEN JapaneseNotFoundException
  ELSE IF Len(streams) = 1 THEN Returned(streams[1][1])
  ELSE LastJapanese(streams, 1)

\* get_japanese_audio_track from "streams" on: what it returns or raises
SelectTrack(streams) ==
  IF Len(streams) = 0 THEN JapaneseNotFoundException
  ELSE IF Len(streams) = 1 THEN Returned(streams[1][1])
  ELSE FirstJapanese(streams, 1)

(* ------------------------------------------------------ folder entries   *)

MKV == <<".", "m", "k", "v">>
MP4_UPPER == <<".", "M", "P", "4">>
TXT == <<".", "t", "x", "t">>
MP3 == <<".", "m", "p", "3">>

VIDEO_EXTS == {<<".", "m", "k", "v">>, <<".", "m", "p", "4">>}

Stems == {"a", "b"}
Suffixes == {MKV, MP4_UPPER, TXT}

\* what iterdir() can yield: a name (stem + suffix) that is a file or a folder
Entry(stem, suffix, isFile) == [stem |-> stem, suffix |-> suffix, isFile |-> isFile]
AllEntries == {Entry(st, su, f) : st \in Stems, su \in Suffixes, f \in BOOLEAN}
Name(e) == <<e.stem, e.suffix>>

\* a folder holds each name once
Folders ==
  {d \in SUBSET AllEntries :
     /\ Cardinality(d) <= MaxEntries
     /\ \A e1, e2 \in d : Name(e1) = Name(e2) => e1 = e2}

\* the filter of main's list comprehension, without is_file()
AltIsVideoFile(e) == Lower(e.suffix) \in VIDEO_EXTS

\* the filter of main's list comprehension
IsVideoFile(e) == e.isFile /\ Lower(e.suffix) \in VIDEO_EXTS

\* every order in which iterdir() can yield the entries of S
Orders(S) ==
  {q \in [1..Cardinality(S) -> S] : \A i, j \in 1..Cardinality(S) : q[i] = q[j] => i = j}

\* video_file.parent / (video_file.stem + ".mp3"), all entries sharing the parent
OutputFilename(e) == <<e.stem, MP3>>

NoEntry == Entry("", << >>, FALSE)
NoCmd == [input |-> NoEntry, map |-> << >>, output |-> << >>]

\* an ffmpeg command line that always maps the first audio stream
AltFfmpegCmd(video_file, track_index) ==
  [input |-> video_file, map |-> <<0, 1>>, output |-> OutputFilename(video_file)]

\* f'ffmpeg -i "{video_file}" -q:a 0 -map {track_index} "{output_filename}"'
FfmpegCmd(video_file, track_index) ==
  [input |-> video_file, map |-> track_index, output |-> OutputFilename(video_file)]

(* ------------------------------------------- what ffprobe prints (batch) *)

\* the docstring's example listing
DocExample ==
  <<VideoLine, StreamLine(0, 1, eng, "Audio"), StreamLine(0, 2, jpn, "Audio"), SubtitleLine>>
SingleEnglish == <<VideoLine, StreamLine(0, 1, eng, "Audio")>>
TwoEnglish == <<VideoLine, StreamLine(0, 1, eng, "Audio"), StreamLine(0, 2, eng, "Audio")>>
Untagged == <<VideoLine, StreamLine(0, 1, NoLang, "Audio")>>

BatchTexts == {DocExample, SingleEnglish, TwoEnglish, Untagged}

\* how a subprocess.run call can go: the process exits, never exits, or cannot be started
LaunchOutcomes == {"returns", "hangs", "oserror"}
ReturnCodes == {0, 1}

(* ------------------------------------------------------------- state     *)

VARIABLES
  selPc,        \* get_japanese_audio_track alone: "ready", "matched", "done"
  selText,      \* its input: the text of output.stderr
  selStreams,   \* its local "streams"
  selResult,    \* what it returned or raised
  mainPc,       \* main: "start", "scan", "submit", "join", "done", "crashed"
  entries,      \* the folder's content
  video_files,  \* main's list
  submitted,    \* how many of video_files executor.map has submitted
  queue,        \* the executor's work queue (task numbers, FIFO)
  maxWorkers,   \* the executor's max_workers
  taskPc,       \* per task: "none", "queued", "probing", "probed",
                \*   "transcoding", "skipped", "extracted", "raised"
  probeOut,     \* per task: the stderr text ffprobe returned
  cmd,          \* per task: the ffmpeg command in flight
  hung,         \* per task: its running process never exits
  failed,       \* per task: one of its processes exited nonzero or could not start
  probes,       \* per entry: ffprobe invocations
  transcodes,   \* per entry: ffmpeg invocations
  stdout        \* what was printed: counts per notice (and per task)

selVars == <<selPc, selText, selStreams, selResult>>
mainVars == <<mainPc, entries, video_files, submitted, queue, maxWorkers>>
taskVars == <<taskPc, probeOut, cmd, hung, failed, probes, transcodes>>
vars == <<selVars, mainVars, taskVars, stdout>>

TaskIds == 1..MaxEntries
Tasks == 1..Len(video_files)

Running == {i \in TaskIds : taskPc[i] \in {"probing", "probed", "transcoding"}}

(* ------------------------------------------------- the selector alone    *)

SelIdle ==
  /\ selPc = "off"
  /\ selText = << >>
  /\ selStreams = << >>
  /\ selResult = JapaneseNotFoundException

BatchIdle ==
  /\ mainPc = "off"
  /\ entries = {}
  /\ video_files = << >>
  /\ submitted = 0
  /\ queue = << >>
  /\ maxWorkers = 0
  /\ taskPc = [i \in TaskIds |-> "none"]
  /\ probeOut = [i \in TaskIds |-> << >>]
  /\ cmd = [i \in TaskIds |-> NoCmd]
  /\ hung = [i \in TaskIds |-> FALSE]
  /\ failed = [i \in TaskIds |-> FALSE]
  /\ probes = [e \in {} |-> 0]
  /\ transcodes = [e \in {} |-> 0]
  /\ stdout = [scanning |-> 0, complete |-> 0,
               skip |-> [i \in TaskIds |-> 0], extracting |-> [i \in TaskIds |-> 0]]

SelInit ==
  /\ selPc = "ready"
  /\ selText \in ProbeTexts
  /\ selStreams = << >>
  /\ selResult = JapaneseNotFoundException
  /\ BatchIdle

\* streams = AUDIO_STREAM_RE.findall(str(output.stderr))
SelFindAll ==
  /\ selPc = "ready"
  /\ selStreams' = FindAll(selText)
  /\ selPc' = "matched"
  /\ UNCHANGED <<selText, selResult, mainVars, taskVars, stdout>>

\* the rest of get_japanese_audio_track
SelSelect ==
  /\ selPc = "matched"
  /\ selResult' = SelectTrack(selStreams)
  /\ selPc' = "done"
  /\ UNCHANGED <<selText, selStreams, mainVars, taskVars, stdout>>

SelNext == SelFindAll \/ SelSelect

SelSpec == SelInit /\ [][SelNext]_vars

(* ------------------------------------------------------ the batch run    *)

Init ==
  /\ SelIdle
  /\ mainPc = "start"
  /\ entries \in Folders
  /\ video_files = << >>
  /\ submitted = 0
  /\ queue = << >>
  /\ maxWorkers \in 1..MaxWorkers
  /\ taskPc = [i \in TaskIds |-> "none"]
  /\ probeOut = [i \in TaskIds |-> << >>]
  /\ cmd = [i \in TaskIds |-> NoCmd]
  /\ hung = [i \in TaskIds |-> FALSE]
  /\ failed = [i \in TaskIds |-> FALSE]
  /\ probes = [e \in entries |-> 0]
  /\ transcodes = [e \in entries |-> 0]
  /\ stdout = [scanning |-> 0, complete |-> 0,
               skip |-> [i \in TaskIds |-> 0], extracting |-> [i \in TaskIds |-> 0]]

\* print("Scanning folder for video files")
MainStart ==
  /\ mainPc = "start"
  /\ stdout' = [stdout EXCEPT !.scanning = @ + 1]
  /\ mainPc' = "scan"
  /\ UNCHANGED <<selVars, entries, video_files, submitted, queue, maxWorkers, taskVars>>

\* video_files = [... for video_file in folder_to_convert.iterdir() if ...]
MainScan ==
  /\ mainPc = "scan"
  /\ video_files' \in Orders({e \in entries : IsVideoFile(e)})
  /\ mainPc' = "submit"
  /\ UNCHANGED <<selVars, entries, submitted, queue, maxWorkers, taskVars, stdout>>

\* iterdir() raises (the folder is missing or unreadable): main ends with it
MainScanFails ==
  /\ mainPc = "scan"
  /\ mainPc' = "crashed"
  /\ UNCHANGED <<selVars, entries, video_files, submitted, queue, maxWorkers, taskVars, stdout>>

\* executor.map submits one task per element of video_files, in order
MainSubmit ==
  /\ mainPc = "submit"
  /\ submitted < Len(video_files)
  /\ submitted' = submitted + 1
  /\ queue' = Append(queue, submitted + 1)
  /\ taskPc' = [taskPc EXCEPT ![submitted + 1] = "queued"]
  /\ UNCHANGED <<selVars, mainPc, entries, video_files, maxWorkers,
                 probeOut, cmd, hung, failed, probes, transcodes, stdout>>

\* executor.map returns (its result iterator is dropped); the with block ends
MainExitWith ==
  /\ mainPc = "submit"
  /\ submitted = Len(video_files)
  /\ mainPc' = "join"
  /\ UNCHANGED <<selVars, entries, video_files, submitted, queue, maxWorkers, taskVars, stdout>>

\* a pool that does not wait for its tasks (shutdown(wait=False))
AltPoolJoined == TRUE

\* ThreadPoolExecutor.__exit__: shutdown(wait=True) returns once every worker
\* thread has ended, that is once the queue is empty and no task is running
PoolJoined == queue = << >> /\ Running = {}

\* print("Conversion complete!")
MainComplete ==
  /\ mainPc = "join"
  /\ PoolJoined
  /\ stdout' = [stdout EXCEPT !.complete = @ + 1]
  /\ mainPc' = "done"
  /\ UNCHANGED <<selVars, entries, video_files, submitted, queue, maxWorkers, taskVars>>

\* an exception of a task re-raised in main (as iterating map's results would)
AltDiscardedResult(pc) == "crashed"

\* An exception leaving extract_audio is stored in the task's Future; main
\* never reads the futures, so main goes on where it was
DiscardedResult(pc) == pc

\* a pool that keeps one of its workers idle
AltWorkerFree == Cardinality(Running) + 1 < maxWorkers

\* the pool runs at most max_workers tasks at a time
WorkerFree == Cardinality(Running) < maxWorkers

\* A worker takes the next task: extract_audio -> get_japanese_audio_track ->
\* subprocess.run(ffprobe ...)
TaskStart(i) ==
  /\ queue # << >>
  /\ i = Head(queue)
  /\ WorkerFree
  /\ queue' = Tail(queue)
  /\ probes' = [probes EXCEPT ![video_files[i]] = @ + 1]
  /\ \E outcome \in LaunchOutcomes :
       IF outcome = "oserror"
       THEN /\ taskPc' = [taskPc EXCEPT ![i] = "raised"]
            /\ failed' = [failed EXCEPT ![i] = TRUE]
            /\ mainPc' = DiscardedResult(mainPc)
            /\ UNCHANGED hung
       ELSE /\ taskPc' = [taskPc EXCEPT ![i] = "probing"]
            /\ hung' = [hung EXCEPT ![i] = (outcome = "hangs")]
            /\ UNCHANGED <<failed, mainPc>>
  /\ UNCHANGED <<selVars, entries, video_files, submitted, maxWorkers,
                 probeOut, cmd, transcodes, stdout>>

\* ffprobe exits: subprocess.run returns output (returncode, stderr)
ProbeReturn(i) ==
  /\ taskPc[i] = "probing"
  /\ ~hung[i]
  /\ \E text \in BatchTexts, returncode \in ReturnCodes :
       /\ probeOut' = [probeOut EXCEPT ![i] = text]
       /\ failed' = [failed EXCEPT ![i] = (returncode # 0)]
  /\ taskPc' = [taskPc EXCEPT ![i] = "probed"]
  /\ UNCHANGED <<selVars, mainVars, cmd, hung, probes, transcodes, stdout>>

\* an except clause that does not catch the exception
AltCaught(result) == FALSE

\* except JapaneseNotFoundException
Caught(result) == result.raised

\* The rest of get_japanese_audio_track, then extract_audio up to
\* subprocess.run(ffmpeg ...)
Extract(i) ==
  /\ taskPc[i] = "probed"
  /\ LET result == SelectTrack(FindAll(probeOut[i]))
     IN IF result.raised
        THEN /\ IF Caught(result)
                THEN /\ stdout' = [stdout EXCEPT !.skip[i] = @ + 1]
                     /\ taskPc' = [taskPc EXCEPT ![i] = "skipped"]
                     /\ UNCHANGED mainPc
                ELSE /\ taskPc' = [taskPc EXCEPT ![i] = "raised"]
                     /\ mainPc' = DiscardedResult(mainPc)
                     /\ UNCHANGED stdout
             /\ probeOut' = [probeOut EXCEPT ![i] = << >>]
             /\ UNCHANGED <<cmd, hung, failed, transcodes>>
        ELSE /\ stdout' = [stdout EXCEPT !.extracting[i] = @ + 1]
             /\ transcodes' = [transcodes EXCEPT ![video_files[i]] = @ + 1]
             /\ \E outcome \in LaunchOutcomes :
                  IF outcome = "oserror"
                  THEN /\ taskPc' = [taskPc EXCEPT ![i] = "raised"]
                       /\ failed' = [failed EXCEPT ![i] = TRUE]
                       /\ mainPc' = DiscardedResult(mainPc)
                       /\ probeOut' = [probeOut EXCEPT ![i] = << >>]
                       /\ UNCHANGED <<cmd, hung>>
                  ELSE /\ taskPc' = [taskPc EXCEPT ![i] = "transcoding"]
                       /\ cmd' = [cmd EXCEPT ![i] = FfmpegCmd(video_files[i], result.index)]
                       /\ hung' = [hung EXCEPT ![i] = (outcome = "hangs")]
                       /\ UNCHANGED <<failed, mainPc, probeOut>>
  /\ UNCHANGED <<selVars, entries, video_files, submitted, queue, maxWorkers, probes>>

\* ffmpeg exits: subprocess.run returns, extract_audio returns
TranscodeReturn(i) ==
  /\ taskPc[i] = "transcoding"
  /\ ~hung[i]
  /\ \E returncode \in ReturnCodes :
       failed' = [failed EXCEPT ![i] = @ \/ (returncode # 0)]
  /\ taskPc' = [taskPc EXCEPT ![i] = "extracted"]
  /\ probeOut' = [probeOut EXCEPT ![i] = << >>]
  /\ cmd' = [cmd EXCEPT ![i] = NoCmd]
  /\ UNCHANGED <<selVars, mainVars, hung, probes, transcodes, stdout>>

Main == MainStart \/ MainScan \/ MainScanFails \/ MainSubmit \/ MainExitWith \/ MainComplete

Task(i) == TaskStart(i) \/ ProbeReturn(i) \/ Extract(i) \/ TranscodeReturn(i)

Next == Main \/ \E i \in TaskIds : Task(i)

Spec == Init /\ [][Next]_vars

\* The main thread and the pool's worker threads are OS threads and each gets
\* to run; a process that is not hung exits.
FairSpec == Spec /\ WF_vars(Main) /\ \A i \in TaskIds : WF_vars(Task(i))

(* ------------------------------------------------------------ the claims *)

\* The audio stream descriptors of a probe text, as the specification means
\* them: the lines "Stream #<c>:<s>: Audio" with one-digit numbers, with a
\* language tag or without one, in document order.
IsDescriptor(line) ==
  line.kind = "Audio" /\ line.container < 10 /\ line.stream < 10

Descriptors(text) == SelectSeq(text, IsDescriptor)

Label(line) == <<line.container, line.stream>>

\* the spellings of "jpn" that are equal to it ignoring case
JpnSpellings == {<<a, b, c>> : a \in {"j", "J"}, b \in {"p", "P"}, c \in {"n", "N"}}

TaggedJpn(line) == line.lang \in JpnSpellings

JpnPositions(d) == {k \in 1..Len(d) : TaggedJpn(d[k])}

FirstJpn(d) == CHOOSE k \in JpnPositions(d) : \A m \in JpnPositions(d) : k <= m

\* C1: a probe text with exactly one audio stream descriptor, tagged or
\* untagged, makes get_japanese_audio_track return that stream's index label.
C1_SingleStreamReturned ==
  (selPc = "done" /\ Len(Descriptors(selText)) = 1)
    => selResult = Returned(Label(Descriptors(selText)[1]))

C3_NoJapaneseRaises ==
  LET d == Descriptors(selText)
  IN (selPc = "done" /\ Len(d) >= 2 /\ JpnPositions(d) = {})
       => selResult = JapaneseNotFoundException

SelectionFails(i) == SelectTrack(FindAll(probeOut[i])).raised

C5_NoticesBracketTheRun ==
  /\ mainPc = "start" => (stdout.scanning = 0 /\ video_files = << >>)
  /\ mainPc \in {"submit", "join", "done", "crashed"} => stdout.scanning = 1
  /\ stdout.complete > 0 =>
       /\ stdout.complete = 1
       /\ submitted = Len(video_files)
       /\ queue = << >>
       /\ \A i \in Tasks : taskPc[i] \in {"skipped", "extracted", "raised"}

C5_Witness ==
  /\ stdout.complete = 1
  /\ Len(video_files) = 2
  /\ \E i \in Tasks : taskPc[i] = "extracted"

AnyFailed == \E i \in TaskIds : failed[i]
AnyHung == \E i \in TaskIds : hung[i]
AllEnded == \A i \in Tasks : taskPc[i] \in {"skipped", "extracted", "raised"}

\* C6: a failing external tool (nonzero exit, or an error when launching it)
\* in one task never ends main with an error, and, unless a process hangs,
\* every task still ends and main prints the completion notice.
C6_FailureContained ==
  /\ [](AnyFailed => mainPc # "crashed")
  /\ [](AnyFailed => <>(AnyHung \/ (mainPc = "done" /\ stdout.complete = 1 /\ AllEnded)))

C6_Witness ==
  /\ mainPc = "done"
  /\ \E i, j \in Tasks :
       /\ taskPc[i] = "raised"
       /\ failed[i]
       /\ taskPc[j] = "extracted"
       /\ ~failed[j]

\* C7: the ffmpeg processes of two distinct video files running at the same
\* time never write the same output path.
C7_DistinctOutputs ==
  \A i, j \in Tasks :
    (i # j /\ taskPc[i] = "transcoding" /\ taskPc[j] = "transcoding")
      => cmd[i].output # cmd[j].output

\* C8: ffmpeg starts for a file only once that file's ffprobe has returned,
\* and its -map argument is the label selected from that file's own probe
\* output (the probes and transcodes of different files may overlap).
C8_ProbeThenTranscode ==
  /\ [](\A i \in TaskIds :
          taskPc[i] = "transcoding" =>
            /\ cmd[i].input = video_files[i]
            /\ ~SelectionFails(i)
            /\ cmd[i].map = SelectTrack(FindAll(probeOut[i])).index)
  /\ [][\A i \in TaskIds :
          (taskPc'[i] = "transcoding" /\ taskPc[i] # "transcoding")
            => (taskPc[i] = "probed" /\ probeOut'[i] = probeOut[i])]_vars

\* one file is being transcoded (stream 0:2 of the docstring's listing) while
\* another is being probed
C8_Witness ==
  \E i, j \in Tasks :
    /\ i # j
    /\ taskPc[i] = "transcoding"
    /\ probeOut[i] = DocExample
    /\ cmd[i].map = <<0, 2>>
    /\ taskPc[j] = "probing"

\* the spellings of ".mkv" and ".mp4" that are equal to them ignoring case
VideoSuffixSpellings ==
  {<<".", a, b, c>> : a \in {"m", "M"}, b \in {"k", "K"}, c \in {"v", "V"}}
    \cup {<<".", a, b, "4">> : a \in {"m", "M"}, b \in {"p", "P"}}

IsVideoEntry(e) == e.isFile /\ e.suffix \in VideoSuffixSpellings

\* C9: only regular files with a .mkv or .mp4 suffix (ignoring case) are ever
\* probed or transcoded; each gets exactly one task; ffmpeg is invoked at most
\* once per file and not at all for a skipped one.
C9_OnlyVideoFilesOnce ==
  /\ \A e \in entries :
       /\ ~IsVideoEntry(e) => (probes[e] = 0 /\ transcodes[e] = 0)
       /\ probes[e] <= 1
       /\ transcodes[e] <= 1
       /\ mainPc \in {"submit", "join", "done"} =>
            Cardinality({k \in Tasks : video_files[k] = e}) = (IF IsVideoEntry(e) THEN 1 ELSE 0)
       /\ mainPc = "done" /\ IsVideoEntry(e) => probes[e] = 1
  /\ \A i \in Tasks : taskPc[i] = "skipped" => transcodes[video_files[i]] = 0
  /\ submitted <= Len(video_files)
  /\ \A i \in TaskIds : taskPc[i] # "none" <=> i <= submitted

C9_Witness ==
  /\ mainPc = "done"
  /\ \E e1, e2 \in entries :
       /\ e1.isFile /\ e1.suffix = MP4_UPPER /\ transcodes[e1] = 1
       /\ ~e2.isFile /\ e2.suffix = MKV /\ probes[e2] = 0

\* C10: with fair threads and no hanging process every submitted task is
\* started and ends, also with more files than workers, and main prints the
\* completion notice; tasks are created by main's submission only; a hung
\* process stays hung, and while one is, main has not printed and does not
\* print the completion notice.
C10_Termination ==
  /\ [](mainPc = "submit" =>
          <>(AnyHung \/ (mainPc = "done" /\ stdout.complete = 1 /\ AllEnded)))
  /\ [](AnyHung => (mainPc # "done" /\ stdout.complete = 0))
  /\ [][AnyHung => AnyHung']_vars
  /\ [][\A i \in TaskIds :
          (taskPc[i] = "none" /\ taskPc'[i] # "none")
            => (mainPc = "submit" /\ i = submitted + 1 /\ i <= Len(video_files))]_vars

\* more files than workers, and all of them done
C10_Witness ==
  /\ mainPc = "done"
  /\ stdout.complete = 1
  /\ Len(video_files) > maxWorkers
  /\ \A i \in Tasks : taskPc[i] = "extracted"

====
